---- MODULE Spec2Model ----
(***************************************************************************)
(* Model of src/main.py: the Arabic content moderation bot.                *)
(*                                                                         *)
(* A text is a sequence of characters; a character is the string naming    *)
(* its code point ("ALEF" is U+0627, "k" is U+006B, "SPACE" is U+0020).     *)
(* The module has three parts: the text functions of ArabicContentModerator*)
(* (normalize_arabic_text and the lexicon scan), the construction of the   *)
(* lexicon (_compile_bad_words, one loop step at a time), and the bot's    *)
(* handling of updates (ContentModerationBot), split at the points where   *)
(* the handler waits for the outside world.                                *)
(***************************************************************************)
EXTENDS Integers, Sequences, FiniteSets, TLC

\* Bounds of the model.
MaxMsgs == 2
MaxLen == 3

(***************************************************************************)
(* Characters and the Unicode tables normalize_arabic_text depends on.     *)
(***************************************************************************)

\* unicodedata.normalize('NFKD', c) of one character, for the characters that
\* have a decomposition: U+0623 -> U+0627 U+0654, U+0625 -> U+0627 U+0655,
\* U+00A0 -> U+0020, U+FEFB -> U+0644 U+0627.
Decomposition(c) ==
    CASE c = "ALEF_HAMZA_ABOVE" -> <<"ALEF", "HAMZA_ABOVE">>
      [] c = "ALEF_HAMZA_BELOW" -> <<"ALEF", "HAMZA_BELOW">>
      [] c = "NBSP" -> <<"SPACE">>
      [] c = "LAM_ALEF_LIGATURE" -> <<"LAM", "ALEF">>
      [] OTHER -> <<c>>

\* unicodedata.combining(c) # 0: the combining marks (U+064E, U+0651, U+0654,
\* U+0655).
combining(c) == c \in {"FATHA", "SHADDA", "HAMZA_ABOVE", "HAMZA_BELOW"}

\* str.isspace, which str.split() uses to cut the text.
isspace(c) == c \in {"SPACE", "TAB", "NEWLINE", "NBSP"}

LatinUpper == <<"A", "E", "F", "K", "L", "O", "R", "S", "T", "U">>
LatinLower == <<"a", "e", "f", "k", "l", "o", "r", "s", "t", "u">>

\* str.lower() and str.upper() of one character (the Arabic letters, digits
\* and marks have no case).
lower_char(c) ==
    IF \E i \in 1..Len(LatinUpper) : LatinUpper[i] = c
    THEN LatinLower[CHOOSE i \in 1..Len(LatinUpper) : LatinUpper[i] = c]
    ELSE c

upper_char(c) ==
    IF \E i \in 1..Len(LatinLower) : LatinLower[i] = c
    THEN LatinUpper[CHOOSE i \in 1..Len(LatinLower) : LatinLower[i] = c]
    ELSE c

lower(text) == [i \in 1..Len(text) |-> lower_char(text[i])]
upper(text) == [i \in 1..Len(text) |-> upper_char(text[i])]

RECURSIVE Flatten(_)
Flatten(ss) == IF ss = <<>> THEN <<>> ELSE Head(ss) \o Flatten(Tail(ss))

\* unicodedata.normalize('NFKD', text). Canonical reordering only permutes
\* combining marks among themselves, and every combining mark is dropped by
\* the caller, so the decomposition is taken character by character.
NFKD(text) == Flatten([i \in 1..Len(text) |-> Decomposition(text[i])])

NotCombining(c) == ~combining(c)

\* ''.join(char for char in NFKD(text) if not unicodedata.combining(char))
RemoveDiacritics(text) == SelectSeq(NFKD(text), NotCombining)

\* text.replace(old, new) for a one-character old; new is a text (maybe empty).
str_replace(text, old, new) ==
    Flatten([i \in 1..Len(text) |-> IF text[i] = old THEN new ELSE <<text[i]>>])

\* text.split(): the maximal runs of non-whitespace characters.
RECURSIVE split_from(_, _)
split_from(s, cur) ==
    IF s = <<>>
    THEN IF cur = <<>> THEN <<>> ELSE <<cur>>
    ELSE IF isspace(Head(s))
         THEN (IF cur = <<>> THEN <<>> ELSE <<cur>>) \o split_from(Tail(s), <<>>)
         ELSE split_from(Tail(s), Append(cur, Head(s)))

split(text) == split_from(text, <<>>)

\* ' '.join(words)
RECURSIVE join(_)
join(words) ==
    IF words = <<>> THEN <<>>
    ELSE IF Len(words) = 1 THEN Head(words)
    ELSE Head(words) \o <<"SPACE">> \o join(Tail(words))

NormalizeLetters(text) ==
    str_replace(
        str_replace(
            str_replace(
                str_replace(text, "ALEF_MAKSURA", <<"YEH">>),
                "TEH_MARBUTA", <<"HEH">>),
            "ALEF_HAMZA_ABOVE", <<"ALEF">>),
        "ALEF_HAMZA_BELOW", <<"ALEF">>)

\* A normalizer that collapses the whitespace before it removes the
\* diacritics.
normalize_spaces_first(text) ==
    lower(NormalizeLetters(SelectSeq(NFKD(join(split(text))), NotCombining)))

normalize_arabic_text(text) ==
    lower(join(split(NormalizeLetters(RemoveDiacritics(text)))))

\* bad_word in normalized_text: substring containment.
Contains(sub, s) ==
    \E i \in 0..(Len(s) - Len(sub)) : SubSeq(s, i + 1, i + Len(sub)) = sub

ToSet(s) == {s[i] : i \in 1..Len(s)}

(***************************************************************************)
(* The seed list of _compile_bad_words, in source order.                   *)
(***************************************************************************)
bad_words_list == <<
    <<"HAH", "MEEM", "ALEF", "REH">>,
    <<"KAF", "LAM", "BEH">>,
    <<"AIN", "ALEF", "HEH", "REH">>,
    <<"ZAIN", "NOON", "YEH", "TEH_MARBUTA">>,
    <<"KAF", "WAW", "ALEF", "DAL">>,
    <<"MEEM", "NOON", "YEH", "WAW", "JEEM">>,
    <<"KHAH", "WAW", "ALEF", "TEH", "SPACE", "KAF", "HAH", "BEH", "TEH_MARBUTA">>,
    <<"KAF", "SEEN">>,
    <<"MEEM", "ALEF_HAMZA_ABOVE", "JEEM", "WAW", "REH">>,
    <<"AIN", "MEEM", "YEH", "LAM">>,
    <<"TAH", "YEH", "ZAIN", "KAF">>,
    <<"TAH", "YEH", "ZAIN">>,
    <<"AIN", "ALEF", "HEH", "REH", "TEH_MARBUTA">>,
    <<"ZAIN", "NOON", "ALEF">>,
    <<"KAF", "HAH", "BEH", "HEH">>,
    <<"MEEM", "NOON", "YEH", "WAW", "JEEM">>,
    <<"TEH", "LAM", "WAW", "ZAIN", "HEH">>,
    <<"TEH", "LAM", "WAW", "ZAIN", "TEH_MARBUTA">>,
    <<"SAD", "REH", "MEEM", "KAF">>,
    <<"SAD", "REH", "MEEM">>,
    <<"AIN", "REH", "SAD">>,
    <<"QAF", "HAH", "BEH", "TEH_MARBUTA">>,
    <<"MEEM", "NOON", "YEH", "YEH", "JEEM", "HEH">>,
    <<"SHEEN", "REH", "MEEM", "WAW", "TAH", "TEH_MARBUTA">>,
    <<"AIN", "YEH", "REH">>,
    <<"ALEF", "YEH", "JEEM", "TEH">>,
    <<"MEEM", "NOON", "YEH", "JEEM", "TEH_MARBUTA">>,
    <<"KAF", "SEEN", "MEEM">>,
    <<"KAF", "LAM", "KHAH">>,
    <<"k", "o", "s">>,
    <<"k", "u", "s", "s">>,
    <<"k", "h", "a", "r", "a">>,
    <<"k", "h", "a", "r", "a", "2">>,
    <<"m", "a", "n", "y", "a", "k">>,
    <<"m", "a", "n", "a", "k">>,
    <<"s", "h", "a", "r", "m", "o", "t", "a">>,
    <<"HAH", "SPACE", "MEEM", "SPACE", "ALEF", "SPACE", "REH">>,
    <<"KAF", "SPACE", "LAM", "SPACE", "BEH">>,
    <<"AIN", "SPACE", "ALEF", "SPACE", "HEH", "SPACE", "REH">>
>>

VARIABLES
    cpc,             \* position in _compile_bad_words, then "running"
    idx,             \* index of the loop's current word in bad_words_list
    extended_words,  \* the local list of _compile_bad_words
    bad_words,       \* self.bad_words, the lexicon
    updates,         \* updates fetched by run_polling, not yet handled
    kind,            \* per message: "text", "command", "edited" ("none" before it is sent)
    text,            \* per message: its text
    pc,              \* per message: where its handling stands
    scan,            \* per message: result of the lexicon scan
    response,        \* per message: outcome of model.generate_content
    remoteCalls,     \* per message: calls of model.generate_content
    deleteCalls,     \* per message: calls of message.delete
    warnCalls,       \* per message: calls of bot.send_message
    deleteResult,    \* per message: "none", "ok" or "raised"
    warnResult,      \* per message: "none", "ok" or "raised"
    stdout,          \* what print() has written: <<line, message>> records
    npc,             \* position of the normalization round trip
    nText,           \* its input
    nOnce,           \* normalize_arabic_text(nText)
    nTwice           \* normalize_arabic_text(nOnce)

ctorVars == <<cpc, idx, extended_words, bad_words>>
botVars == <<updates, kind, text, pc, scan, response, remoteCalls, deleteCalls,
             warnCalls, deleteResult, warnResult, stdout>>
normVars == <<npc, nText, nOnce, nTwice>>
vars == <<ctorVars, botVars, normVars>>

Msgs == 1..MaxMsgs

(***************************************************************************)
(* _compile_bad_words: the loop over the seed list, one append at a time.  *)
(***************************************************************************)

\* The variations list without its last entry.
variations_without_teh_marbuta(word) ==
    << str_replace(word, "ALEF", <<"ALEF_HAMZA_ABOVE">>),
       str_replace(word, "ALEF", <<"ALEF_HAMZA_BELOW">>) >>

variations(word) ==
    << str_replace(word, "ALEF", <<"ALEF_HAMZA_ABOVE">>),
       str_replace(word, "ALEF", <<"ALEF_HAMZA_BELOW">>),
       str_replace(word, "HEH", <<"TEH_MARBUTA">>) >>

AppendWord ==
    /\ cpc = "append_word"
    /\ extended_words' = Append(extended_words, bad_words_list[idx])
    /\ cpc' = "append_nospace"
    /\ UNCHANGED <<idx, bad_words, botVars, normVars>>

AppendNoSpaces ==
    /\ cpc = "append_nospace"
    /\ extended_words' =
           Append(extended_words, str_replace(bad_words_list[idx], "SPACE", <<>>))
    /\ cpc' = "extend_variations"
    /\ UNCHANGED <<idx, bad_words, botVars, normVars>>

ExtendVariations ==
    /\ cpc = "extend_variations"
    /\ extended_words' = extended_words \o variations(bad_words_list[idx])
    /\ IF idx < Len(bad_words_list)
       THEN idx' = idx + 1 /\ cpc' = "append_word"
       ELSE idx' = idx /\ cpc' = "return"
    /\ UNCHANGED <<bad_words, botVars, normVars>>

\* return set(extended_words); the bot then runs (run_polling).
ReturnSet ==
    /\ cpc = "return"
    /\ bad_words' = ToSet(extended_words)
    /\ extended_words' = <<>>
    /\ cpc' = "running"
    /\ UNCHANGED <<idx, botVars, normVars>>

(***************************************************************************)
(* contains_bad_words                                                      *)
(***************************************************************************)

\* for bad_word in self.bad_words: if bad_word.lower() in normalized_text
LexiconHit(normalized_text) ==
    \E bad_word \in bad_words : Contains(lower(bad_word), normalized_text)

\* A reading of the response that flags everything not saying FALSE.
ResponseNotFalse(r) == ~Contains(<<"F", "A", "L", "S", "E">>, upper(r))

\* 'TRUE' in response.text.upper()
ResponseIsTrue(r) == Contains(<<"T", "R", "U", "E">>, upper(r))

\* A failed check that counts as a match.
GeminiFailClosed == TRUE

\* except Exception: ... return False
GeminiFailureResult == FALSE

\* The except clause that catches an exception raised at a call site, or
\* "propagates" when none does.
\* Here bot.send_message lies outside every try block.
HandlerWarnOutsideTry(site) ==
    CASE site \in {"generate_content", "response_text"} -> "gemini_except"
      [] site = "delete" -> "delete_except"
      [] OTHER -> "propagates"

Handler(site) ==
    CASE site \in {"generate_content", "response_text"} -> "gemini_except"
      [] site \in {"delete", "send_message"} -> "delete_except"
      [] OTHER -> "moderation_except"

LogLine(handler) ==
    CASE handler = "gemini_except" -> "Gemini moderation check failed"
      [] handler = "delete_except" -> "Could not delete message"
      [] OTHER -> "Moderation check failed"

(***************************************************************************)
(* The messages the model sends to the chat.                               *)
(***************************************************************************)
\* Texts that hold a seed word as it stands, hide one behind capitals,
\* diacritics or whitespace, surround one with other words, or hold none.
MsgTexts == {
    <<"KAF", "LAM", "BEH">>,
    <<"ZAIN", "NOON", "YEH", "TEH_MARBUTA">>,
    <<"MEEM", "ALEF_HAMZA_ABOVE", "JEEM", "WAW", "REH">>,
    <<"SEEN", "LAM", "ALEF", "MEEM">>,
    <<"K", "O", "S">>,
    <<"KAF", "FATHA", "LAM", "BEH">>,
    <<"HAH", "SPACE", "TAB", "MEEM", "SPACE", "ALEF", "SPACE", "REH">>,
    <<"YEH", "ALEF", "SPACE", "QAF", "HAH", "BEH", "TEH_MARBUTA", "SPACE", "k">>
}

\* An edited message arrives as an update without update.message; its text
\* is never read.
EditedTexts == { <<"KAF", "LAM", "BEH">> }

CommandTexts == { <<"/start">>, <<"/help", "SPACE", "KAF", "LAM", "BEH">> }

\* response.text of the remote model.
Responses == {
    <<"T", "R", "U", "E">>,
    <<"t", "r", "u", "e">>,
    <<"F", "A", "L", "S", "E">>,
    <<>>
}

\* The ways the call of the remote model can end: it returns a response whose
\* text can be read, it raises, or it returns a response whose text cannot
\* be read (response.text raises).
RemoteOutcomes ==
    [how : {"returns"}, text : Responses]
        \cup [how : {"raise", "unreadable"}, text : {<<>>}]

NoResponse == [how |-> "none", text |-> <<>>]

Active(m) == pc[m] \in {"remote", "deleting", "warning", "replying"}

\* A user posts message m; run_polling fetches it into the update queue.
Send(m, k, t) ==
    /\ cpc = "running"
    /\ pc[m] = "unsent"
    /\ \A n \in Msgs : n < m => pc[n] # "unsent"
    /\ kind' = [kind EXCEPT ![m] = k]
    /\ text' = [text EXCEPT ![m] = t]
    /\ pc' = [pc EXCEPT ![m] = "queued"]
    /\ updates' = Append(updates, m)
    /\ UNCHANGED <<ctorVars, scan, response, remoteCalls, deleteCalls, warnCalls,
                   deleteResult, warnResult, stdout, normVars>>

\* The application handles one update at a time: it takes the next update
\* only when no handler is running, and generate_content is a synchronous
\* call made on the event loop's thread.
CanDispatch(m) ==
    /\ cpc = "running"
    /\ updates # <<>>
    /\ Head(updates) = m
    /\ \A n \in Msgs : ~Active(n)

\* CommandHandler('start' / 'help'): the reply is awaited.
DispatchCommand(m) ==
    /\ CanDispatch(m)
    /\ kind[m] = "command"
    /\ updates' = Tail(updates)
    /\ pc' = [pc EXCEPT ![m] = "replying"]
    /\ UNCHANGED <<ctorVars, kind, text, scan, response, remoteCalls, deleteCalls,
                   warnCalls, deleteResult, warnResult, stdout, normVars>>

ReplyReturn(m, ok) ==
    /\ pc[m] = "replying"
    /\ pc' = [pc EXCEPT ![m] = IF ok THEN "replied" ELSE "reply_failed"]
    /\ UNCHANGED <<ctorVars, updates, kind, text, scan, response, remoteCalls,
                   deleteCalls, warnCalls, deleteResult, warnResult, stdout, normVars>>

\* moderate_message: if not update.message or not update.message.text: return
ModerateEarlyReturn(m) ==
    /\ CanDispatch(m)
    /\ kind[m] = "edited"
    /\ updates' = Tail(updates)
    /\ pc' = [pc EXCEPT ![m] = "checked"]
    /\ UNCHANGED <<ctorVars, kind, text, scan, response, remoteCalls, deleteCalls,
                   warnCalls, deleteResult, warnResult, stdout, normVars>>

\* What follows the verdict of contains_bad_words: await update.message.delete()
\* when it is True, the end of the handler when it is False.
AfterVerdict(m, flagged) ==
    IF flagged
    THEN /\ pc' = [pc EXCEPT ![m] = "deleting"]
         /\ deleteCalls' = [deleteCalls EXCEPT ![m] = @ + 1]
    ELSE /\ pc' = [pc EXCEPT ![m] = "checked"]
         /\ UNCHANGED deleteCalls

\* moderate_message up to the first call that leaves the process: the
\* normalization, the lexicon scan, and then either the delete call (a hit)
\* or the call of the remote model (no hit).
ModerateStart(m) ==
    /\ CanDispatch(m)
    /\ kind[m] = "text"
    /\ updates' = Tail(updates)
    /\ LET hit == LexiconHit(normalize_arabic_text(text[m])) IN
       /\ scan' = [scan EXCEPT ![m] = IF hit THEN "hit" ELSE "miss"]
       /\ IF hit
          THEN /\ AfterVerdict(m, TRUE)
               /\ UNCHANGED remoteCalls
          ELSE /\ pc' = [pc EXCEPT ![m] = "remote"]
               /\ remoteCalls' = [remoteCalls EXCEPT ![m] = @ + 1]
               /\ UNCHANGED deleteCalls
    /\ UNCHANGED <<ctorVars, kind, text, response, warnCalls, deleteResult,
                   warnResult, stdout, normVars>>

\* An exception raised at a call site of message m's handling, after the
\* call's own bookkeeping: the except clause prints and the handler ends, or
\* the exception leaves moderate_message.
Raised(m, site) ==
    LET h == Handler(site) IN
    IF h = "propagates"
    THEN /\ pc' = [pc EXCEPT ![m] = "escaped"]
         /\ UNCHANGED stdout
    ELSE /\ pc' = [pc EXCEPT ![m] = "checked"]
         /\ stdout' = Append(stdout, <<LogLine(h), m>>)

\* model.generate_content returns or raises, and contains_bad_words returns.
RemoteReturn(m, r) ==
    /\ pc[m] = "remote"
    /\ response' = [response EXCEPT ![m] = r]
    /\ IF r.how = "returns"
       THEN /\ AfterVerdict(m, ResponseIsTrue(r.text))
            /\ UNCHANGED stdout
       ELSE LET site == IF r.how = "raise" THEN "generate_content" ELSE "response_text"
                h == Handler(site)
            IN  IF h = "gemini_except"
                THEN /\ stdout' = Append(stdout, <<LogLine(h), m>>)
                     /\ AfterVerdict(m, GeminiFailureResult)
                ELSE /\ Raised(m, site)
                     /\ UNCHANGED deleteCalls
    /\ UNCHANGED <<ctorVars, updates, kind, text, scan, remoteCalls, warnCalls,
                   deleteResult, warnResult, normVars>>

\* A delete whose failure is answered by calling delete again.
DeleteReturnRetry(m, ok) ==
    /\ pc[m] = "deleting"
    /\ deleteResult' = [deleteResult EXCEPT ![m] = IF ok THEN "ok" ELSE "raised"]
    /\ IF ok
       THEN /\ pc' = [pc EXCEPT ![m] = "warning"]
            /\ warnCalls' = [warnCalls EXCEPT ![m] = @ + 1]
            /\ UNCHANGED <<stdout, deleteCalls>>
       ELSE /\ deleteCalls' = [deleteCalls EXCEPT ![m] = @ + 1]
            /\ UNCHANGED <<pc, warnCalls, stdout>>
    /\ UNCHANGED <<ctorVars, updates, kind, text, scan, response, remoteCalls,
                   warnResult, normVars>>

\* A delete whose failure is printed, after which the warning is sent anyway.
DeleteReturnWarnAnyway(m, ok) ==
    /\ pc[m] = "deleting"
    /\ deleteResult' = [deleteResult EXCEPT ![m] = IF ok THEN "ok" ELSE "raised"]
    /\ pc' = [pc EXCEPT ![m] = "warning"]
    /\ warnCalls' = [warnCalls EXCEPT ![m] = @ + 1]
    /\ stdout' = IF ok THEN stdout
                 ELSE Append(stdout, <<LogLine(Handler("delete")), m>>)
    /\ UNCHANGED <<ctorVars, updates, kind, text, scan, response, remoteCalls,
                   deleteCalls, warnResult, normVars>>

\* await update.message.delete() returns or raises; on return the warning is
\* built and bot.send_message is called.
DeleteReturn(m, ok) ==
    /\ pc[m] = "deleting"
    /\ deleteResult' = [deleteResult EXCEPT ![m] = IF ok THEN "ok" ELSE "raised"]
    /\ IF ok
       THEN /\ pc' = [pc EXCEPT ![m] = "warning"]
            /\ warnCalls' = [warnCalls EXCEPT ![m] = @ + 1]
            /\ UNCHANGED stdout
       ELSE /\ Raised(m, "delete")
            /\ UNCHANGED warnCalls
    /\ UNCHANGED <<ctorVars, updates, kind, text, scan, response, remoteCalls,
                   deleteCalls, warnResult, normVars>>

\* await bot.send_message(...) returns or raises.
WarnReturn(m, ok) ==
    /\ pc[m] = "warning"
    /\ warnResult' = [warnResult EXCEPT ![m] = IF ok THEN "ok" ELSE "raised"]
    /\ IF ok
       THEN /\ pc' = [pc EXCEPT ![m] = "checked"]
            /\ UNCHANGED stdout
       ELSE Raised(m, "send_message")
    /\ UNCHANGED <<ctorVars, updates, kind, text, scan, response, remoteCalls,
                   deleteCalls, warnCalls, deleteResult, normVars>>

(***************************************************************************)
(* normalize_arabic_text applied to a text, and to its own result.         *)
(***************************************************************************)
NormAlphabet == {"ALEF", "ALEF_HAMZA_ABOVE", "ALEF_HAMZA_BELOW", "ALEF_MAKSURA",
                 "YEH", "TEH_MARBUTA", "HEH", "FATHA", "HAMZA_ABOVE", "SPACE",
                 "TAB", "NBSP", "LAM_ALEF_LIGATURE", "K", "k"}

NormInputs == UNION {[1..n -> NormAlphabet] : n \in 0..MaxLen}

NormalizeOnce ==
    /\ npc = "input"
    /\ nOnce' = normalize_arabic_text(nText)
    /\ npc' = "once"
    /\ UNCHANGED <<ctorVars, botVars, nText, nTwice>>

NormalizeTwice ==
    /\ npc = "once"
    /\ nTwice' = normalize_arabic_text(nOnce)
    /\ npc' = "twice"
    /\ UNCHANGED <<ctorVars, botVars, nText, nOnce>>

(***************************************************************************)
(* Specifications                                                          *)
(***************************************************************************)
InitCtor ==
    /\ cpc = "append_word"
    /\ idx = 1
    /\ extended_words = <<>>
    /\ bad_words = {}

InitBot ==
    /\ updates = <<>>
    /\ kind = [m \in Msgs |-> "none"]
    /\ text = [m \in Msgs |-> <<>>]
    /\ pc = [m \in Msgs |-> "unsent"]
    /\ scan = [m \in Msgs |-> "none"]
    /\ response = [m \in Msgs |-> NoResponse]
    /\ remoteCalls = [m \in Msgs |-> 0]
    /\ deleteCalls = [m \in Msgs |-> 0]
    /\ warnCalls = [m \in Msgs |-> 0]
    /\ deleteResult = [m \in Msgs |-> "none"]
    /\ warnResult = [m \in Msgs |-> "none"]
    /\ stdout = <<>>

Init ==
    /\ InitCtor
    /\ InitBot
    /\ npc = "idle"
    /\ nText = <<>>
    /\ nOnce = <<>>
    /\ nTwice = <<>>

Next ==
    \/ AppendWord
    \/ AppendNoSpaces
    \/ ExtendVariations
    \/ ReturnSet
    \/ \E m \in Msgs : \E t \in MsgTexts : Send(m, "text", t)
    \/ \E m \in Msgs : \E t \in EditedTexts : Send(m, "edited", t)
    \/ \E m \in Msgs : \E t \in CommandTexts : Send(m, "command", t)
    \/ \E m \in Msgs : DispatchCommand(m)
    \/ \E m \in Msgs : \E ok \in BOOLEAN : ReplyReturn(m, ok)
    \/ \E m \in Msgs : ModerateEarlyReturn(m)
    \/ \E m \in Msgs : ModerateStart(m)
    \/ \E m \in Msgs : \E r \in RemoteOutcomes : RemoteReturn(m, r)
    \/ \E m \in Msgs : \E ok \in BOOLEAN : DeleteReturn(m, ok)
    \/ \E m \in Msgs : \E ok \in BOOLEAN : WarnReturn(m, ok)

Spec == Init /\ [][Next]_vars

\* The platform answers the delete or send_message call the running handler
\* waits for, or the HTTP client times out and the call raises. Nothing
\* bounds model.generate_content, so RemoteReturn is not fair.
PlatformCallReturns ==
    \E m \in Msgs : \E ok \in BOOLEAN : DeleteReturn(m, ok) \/ WarnReturn(m, ok)

Fairness == WF_vars(PlatformCallReturns)

FairSpec == Init /\ [][Next]_vars /\ Fairness

NormInit ==
    /\ InitCtor
    /\ InitBot
    /\ npc = "input"
    /\ nText \in NormInputs
    /\ nOnce = <<>>
    /\ nTwice = <<>>

NormNext == NormalizeOnce \/ NormalizeTwice

NormSpec == NormInit /\ [][NormNext]_vars

(***************************************************************************)
(* Properties                                                              *)
(***************************************************************************)
TextMsgs == {m \in Msgs : kind[m] = "text"}

Printed(line, m) == \E i \in 1..Len(stdout) : stdout[i] = <<line, m>>

HoldsSeedWord(t) ==
    \E i \in 1..Len(bad_words_list) : Contains(bad_words_list[i], t)

\* The response texts that hold the word TRUE in either case.
AffirmativeResponses == { <<"T", "R", "U", "E">>, <<"t", "r", "u", "e">> }

RemoteFlagged(m) ==
    response[m].how = "returns" /\ response[m].text \in AffirmativeResponses

\* C1: every message whose text contains a seed word reads as a hit of the
\* lexicon scan, and the remote model is never called for it.
C1_SeedWordHitsLexicon ==
    \A m \in TextMsgs :
        (scan[m] # "none" /\ HoldsSeedWord(text[m]))
            => (scan[m] = "hit" /\ remoteCalls[m] = 0)

\* C2: when the lexicon scan finds nothing and the remote call fails (it
\* raises, or its response cannot be read), the failure is printed and the
\* message is treated as clean: its handling is over, and neither delete nor
\* the warning was called for it.
C2_RemoteFailureIsClean ==
    \A m \in Msgs :
        response[m].how \in {"raise", "unreadable"}
            => /\ scan[m] = "miss"
               /\ Printed("Gemini moderation check failed", m)
               /\ pc[m] = "checked"
               /\ deleteCalls[m] = 0
               /\ warnCalls[m] = 0
               /\ deleteResult[m] = "none"
               /\ warnResult[m] = "none"

C2_Witness ==
    \E m, n \in Msgs :
        /\ response[m].how = "raise"
        /\ response[n].how = "unreadable"
        /\ pc[m] = "checked"
        /\ pc[n] = "checked"

\* C3: a delete or a warning for a message implies that the lexicon scan or
\* the remote model flagged that message; a message with no lexicon entry in
\* its normalized text and a non-affirmative response gets neither.
C3_DeleteOnlyWhenFlagged ==
    \A m \in Msgs :
        (deleteCalls[m] > 0 \/ warnCalls[m] > 0
            \/ deleteResult[m] # "none" \/ warnResult[m] # "none")
            => (scan[m] = "hit" \/ RemoteFlagged(m))

C3_Witness ==
    /\ \E m \in Msgs :
        /\ scan[m] = "miss"
        /\ response[m].how = "returns"
        /\ ~RemoteFlagged(m)
        /\ pc[m] = "checked"
        /\ deleteCalls[m] = 0
    /\ \E m \in Msgs : RemoteFlagged(m) /\ deleteResult[m] = "ok"

\* C4: normalize_arabic_text is idempotent.
C4_NormalizeIdempotent == npc = "twice" => nTwice = nOnce

C4_Witness == npc = "twice" /\ nOnce # nText /\ Len(nOnce) > 1

\* C5: every entry of the lexicon is a fixed point of normalize_arabic_text.
C5_LexiconNormalized ==
    cpc = "running" => \A e \in bad_words : normalize_arabic_text(e) = e

\* C6: for every seed word, the lexicon holds the word itself, the word
\* without its spaces, and the word with ALEF written as ALEF WITH HAMZA
\* ABOVE, with ALEF written as ALEF WITH HAMZA BELOW, and with HEH written as
\* TEH MARBUTA.
Swap(w, from, to) == [i \in 1..Len(w) |-> IF w[i] = from THEN to ELSE w[i]]

IsSpace(c) == c = "SPACE"

NotSpace(c) == ~IsSpace(c)

C6_VariantsInLexicon ==
    cpc = "running" =>
        \A i \in 1..Len(bad_words_list) :
            LET w == bad_words_list[i] IN
            /\ w \in bad_words
            /\ SelectSeq(w, NotSpace) \in bad_words
            /\ Swap(w, "ALEF", "ALEF_HAMZA_ABOVE") \in bad_words
            /\ Swap(w, "ALEF", "ALEF_HAMZA_BELOW") \in bad_words
            /\ Swap(w, "HEH", "TEH_MARBUTA") \in bad_words

C6_Witness ==
    /\ cpc = "running"
    /\ <<"HAH", "MEEM", "ALEF", "REH">> \in bad_words
    /\ <<"HAH", "MEEM", "ALEF_HAMZA_BELOW", "REH">> \in bad_words
    /\ <<"KAF", "HAH", "BEH", "TEH_MARBUTA">> \in bad_words
    /\ <<"KHAH", "WAW", "ALEF", "TEH", "KAF", "HAH", "BEH", "TEH_MARBUTA">> \in bad_words

\* C7: a flagged text message gets exactly one delete call; the remote call,
\* the delete call and the warning are each made at most once per message,
\* also after one of them has failed.
C7_NoRetry ==
    \A m \in Msgs :
        /\ remoteCalls[m] <= 1
        /\ deleteCalls[m] <= 1
        /\ warnCalls[m] <= 1
        /\ (kind[m] = "text" /\ (scan[m] = "hit" \/ RemoteFlagged(m)))
               => deleteCalls[m] = 1
        /\ kind[m] # "text" => remoteCalls[m] + deleteCalls[m] + warnCalls[m] = 0

C7_Witness ==
    \E m, n \in Msgs :
        /\ pc[m] = "checked" /\ deleteResult[m] = "raised" /\ deleteCalls[m] = 1
        /\ pc[n] = "checked" /\ RemoteFlagged(n) /\ warnResult[n] = "raised"
        /\ remoteCalls[n] = 1 /\ deleteCalls[n] = 1 /\ warnCalls[n] = 1

\* C8: while the remote call for one message is outstanding, the handler of
\* any other waiting message can start.
StartHandler(n) == DispatchCommand(n) \/ ModerateEarlyReturn(n) \/ ModerateStart(n)

C8_OthersNotBlocked ==
    \A m, n \in Msgs :
        (pc[m] = "remote" /\ pc[n] = "queued" /\ Head(updates) = n)
            => ENABLED StartHandler(n)

\* C9: no exception leaves moderate_message, whatever fails: a failed remote
\* call, delete or warning is printed, and every message whose remote call
\* has returned or raised ends up checked.
FailuresPrinted ==
    \A m \in Msgs :
        /\ pc[m] # "escaped"
        /\ response[m].how \in {"raise", "unreadable"}
               => Printed("Gemini moderation check failed", m)
        /\ (deleteResult[m] = "raised" \/ warnResult[m] = "raised")
               => (Printed("Could not delete message", m) /\ pc[m] = "checked")

C9_NoFailureEscapes ==
    /\ []FailuresPrinted
    /\ \A m \in Msgs : (response[m].how # "none") ~> (pc[m] = "checked")

C9_Witness ==
    \E m, n \in Msgs :
        /\ pc[m] = "checked" /\ response[m].how = "raise"
        /\ pc[n] = "checked" /\ RemoteFlagged(n) /\ deleteResult[n] = "ok"
        /\ warnResult[n] = "raised" /\ Printed("Could not delete message", n)

\* C10: the warning is sent only after the delete of the same message has
\* succeeded; a delete that raised is followed by no warning.
C10_WarnOnlyAfterDelete ==
    \A m \in Msgs :
        /\ warnCalls[m] > 0 => deleteResult[m] = "ok"
        /\ warnResult[m] # "none" => deleteResult[m] = "ok"
        /\ deleteResult[m] = "raised" => (warnCalls[m] = 0 /\ warnResult[m] = "none")

C10_Witness ==
    \E m, n \in Msgs :
        /\ deleteResult[m] = "raised" /\ pc[m] = "checked" /\ warnCalls[m] = 0
        /\ deleteResult[n] = "ok" /\ warnResult[n] = "ok"
====
